---- MODULE Spec2Model ----
(***************************************************************************)
(* HomeGPT: event ingestion, debounced auto-trigger and prompt compaction  *)
(* (src/homegpt/api/main.py).                                              *)
(*                                                                         *)
(* The API runs on one asyncio event loop.  A coroutine runs without       *)
(* interruption from one suspension point (an await that really suspends)  *)
(* to the next, so every action below is one such uninterrupted stretch.   *)
(* `async with EVENT_LOCK` never suspends here: no critical section        *)
(* contains an await, so the lock is free whenever a coroutine is resumed. *)
(* asyncio.create_task only queues the new task; its body starts at a      *)
(* later turn of the loop, and the creating coroutine keeps running until  *)
(* it suspends itself.  `async for raw in ws` does not suspend while the   *)
(* websocket has messages queued, so ha_event_listener may handle further  *)
(* events before a task it has just created runs its first statement.      *)
(***************************************************************************)
EXTENDS Integers, Sequences, FiniteSets, TLC

(* ---------------- bounds of the model ---------------- *)
MaxEvents == 4      \* events read from the stream
MaxTasks  == 2      \* _auto_trigger tasks created
MaxManual == 1      \* POST /api/run calls
MaxTicks  == 2      \* advances of the monotonic clock

(* ---------------- program constants ---------------- *)
\* src/homegpt/api/main.py:80-83, 89-91.  The capacities and thresholds are
\* scaled down (20000, 8000, 4500, 200 in the source); the scaling keeps
\* the source's order THRESHOLD < MAX and the source's relations
\* 32 * THRESHOLD >= TRIGGER_CHARS and 32 * TRIGGER_UNIQUE >= TRIGGER_CHARS.
EVENT_BUFFER_MAX == 3
AUTO_ANALYSIS_EVENT_THRESHOLD == 2
AUTO_ANALYSIS_MIN_INTERVAL_SEC == 60 * 60
EVENTS_TRIGGER_CHARS == 60
EVENTS_TRIGGER_UNIQUE == 2
AUTO_SIZE_MIN_INTERVAL_SEC == 60 * 60
\* run_analysis keeps the last 2000 events (main.py:1723); scaled like the
\* capacities above and, as in the source, below EVENT_BUFFER_MAX.
MANUAL_RUN_MAX == 2
\* timestamp + separators of a rendered bullet (main.py:2127)
APPROX_OVERHEAD == 32
\* step of the monotonic clock in the model, in seconds
TickSec == 60 * 60
MaxNow == MaxTicks * TickSec

None == "<None>"   \* Python None where a string may stand
NoTs == -1          \* Python None for _last_auto_run_ts (loop.time() >= 0)
NoRow == 0          \* Python None for a row (row ids start at 1)

\* state_changed events of the stream: (entity_id, old state, new state);
\* old_state may be null.  The first renders to 41 characters, the second
\* to 67, above EVENTS_TRIGGER_CHARS on its own.
StreamEvents == {<<"light.a", None, "on">>,
                 <<"lock.b", "unlocked", "locked_by_keypad_code">>}

Modes == {"passive", "active"}

VARIABLES
    EVENT_BUFFER,        \* main.py:79   list of event dicts
    EVENT_BYTES,         \* main.py:85
    EVENT_UNIQUE_IDS,    \* main.py:86
    EVENT_LOCK,          \* main.py:100  "free" or the holder of the lock
    in_progress,         \* main.py:101  _analysis_in_progress.is_set()
    _last_auto_run_ts,   \* main.py:103  None or a loop.time() value
    now_mono,            \* asyncio loop.time()
    cfg_mode,            \* "mode" of the config file (_load_config), not
                         \* rewritten during a behaviour
    tasks,               \* the _auto_trigger tasks, by creation order
    db_rows,             \* number of rows in table analyses
    stream_pos,          \* events read from ha.websocket_events() so far
    manual_runs,         \* POST /api/run calls so far
    manual_mode,         \* local `mode` of the last /api/run call
    manual_events,       \* local `events` of the last /api/run call
    since_clear,         \* history: events appended since the last clear
    p_pc,                \* prompt compactor: "idle", "input", "composed", "clamped"
    p_in,                \* arguments of compose_user_prompt
    p_arg,               \* text argument of clamp_chars
    p_max,               \* max_chars argument of clamp_chars
    p_out,               \* returned text
    h_pc,                \* history compressor: "idle", "input", "compressed",
                         \* "ranked"
    h_in,                \* arguments of the call
    h_out,               \* returned value
    f_pc,                \* history fetch of a run: "idle", "call1", "call2",
                         \* "fetched", "packed", "raised"
    f_in,                \* the run's arguments and config values
    f_out,               \* requests sent, exceptions logged, locals hist
                         \* and history_block
    l_max,               \* util.py:8   RateLimiter.max_per_hour
    l_now,               \* datetime.utcnow(), in seconds
    l_events,            \* util.py:9   RateLimiter.events (a deque)
    l_admitted,          \* history: the times of all calls that returned True
    l_calls,             \* allow() calls so far
    l_ret                \* value returned by the last allow() call

evars == <<EVENT_BUFFER, EVENT_BYTES, EVENT_UNIQUE_IDS, EVENT_LOCK,
           in_progress, _last_auto_run_ts, now_mono, cfg_mode, tasks, db_rows,
           stream_pos, manual_runs, manual_mode, manual_events, since_clear>>
pvars == <<p_pc, p_in, p_arg, p_max, p_out>>
hvars == <<h_pc, h_in, h_out>>
fvars == <<f_pc, f_in, f_out>>
lvars == <<l_max, l_now, l_events, l_admitted, l_calls, l_ret>>
vars == <<evars, pvars, hvars, fvars, lvars>>

(* ---------------- helpers ---------------- *)
\* Python: str(x or "")
StrOrEmpty(x) == IF x = None THEN "" ELSE x

\* Python: lst[:k] for k >= 0
FirstN(s, k) == IF Len(s) <= k THEN s ELSE SubSeq(s, 1, k)

\* variant: lst[:k], the oldest k entries
LastN_FirstN(s, k) == FirstN(s, k)

\* Python: lst[-k:] for k > 0
LastN(s, k) == IF Len(s) <= k THEN s ELSE SubSeq(s, Len(s) - k + 1, Len(s))

SeqToSet(s) == {s[i] : i \in 1..Len(s)}

NoTask == [pc |-> "none", mode |-> None, events |-> <<>>, row |-> NoRow,
           reason |-> None, trig |-> <<>>, llm |-> FALSE]

Active(t) == tasks[t].pc \notin {"none", "done", "failed"}
Terminated(t) == tasks[t].pc \in {"done", "failed"}
FreeSlots == {t \in 1..MaxTasks : tasks[t].pc = "none"}

InitPipeline ==
    /\ EVENT_BUFFER = <<>>
    /\ EVENT_BYTES = 0
    /\ EVENT_UNIQUE_IDS = {}
    /\ EVENT_LOCK = "free"
    /\ in_progress = FALSE
    /\ _last_auto_run_ts = NoTs
    /\ now_mono \in {0, TickSec}
    /\ cfg_mode \in Modes
    /\ tasks = [t \in 1..MaxTasks |-> NoTask]
    /\ db_rows = 0
    /\ stream_pos = 0
    /\ manual_runs = 0
    /\ manual_mode = None
    /\ manual_events = <<>>
    /\ since_clear = <<>>

PromptIdle ==
    /\ p_pc = "idle"
    /\ p_in = <<>>
    /\ p_arg = <<>>
    /\ p_max = 0
    /\ p_out = <<>>

HistoryIdle ==
    /\ h_pc = "idle"
    /\ h_in = <<>>
    /\ h_out = <<>>

FetchIdle ==
    /\ f_pc = "idle"
    /\ f_in = <<>>
    /\ f_out = <<>>

LimiterIdle ==
    /\ l_max = 0
    /\ l_now = 0
    /\ l_events = <<>>
    /\ l_admitted = <<>>
    /\ l_calls = 0
    /\ l_ret = FALSE

Init == InitPipeline /\ PromptIdle /\ HistoryIdle /\ FetchIdle /\ LimiterIdle

(* ---------------- EVENT_LOCK ---------------- *)
\* variant: the `async with` block extends over the awaits that follow it
ReleaseLock_AcrossAwait(holder) == holder

\* main.py:1117-1122, 1721-1726, 2116-2148: the `async with EVENT_LOCK`
\* block ends before the stretch's first await
ReleaseLock(holder) == "free"

(* ---------------- ha_event_listener ---------------- *)
\* variant: the eviction keeps the oldest entries and drops the new event
AppendEvict_KeepsOldest(buf, data) ==
    LET b == Append(buf, data)
    IN  IF Len(b) > EVENT_BUFFER_MAX
        THEN SubSeq(b, 1, EVENT_BUFFER_MAX)
        ELSE b

\* main.py:2118-2120
AppendEvict(buf, data) ==
    LET b == Append(buf, data)
    IN  IF Len(b) > EVENT_BUFFER_MAX
        THEN SubSeq(b, Len(b) - EVENT_BUFFER_MAX + 1, Len(b))
        ELSE b

\* variant: the estimate counts the three strings only
approx_len_NoOverhead(data) ==
    Len(StrOrEmpty(data.entity_id))
        + Len(StrOrEmpty(data.from)) + Len(StrOrEmpty(data.to))

\* main.py:2123-2127
approx_len(data) ==
    APPROX_OVERHEAD + Len(StrOrEmpty(data.entity_id))
        + Len(StrOrEmpty(data.from)) + Len(StrOrEmpty(data.to))

\* main.py:2133
count_pressure(buf) == Len(buf) >= AUTO_ANALYSIS_EVENT_THRESHOLD

\* main.py:2136-2139
size_pressure(bytes, ids) ==
    \/ bytes >= EVENTS_TRIGGER_CHARS
    \/ Cardinality(ids) >= EVENTS_TRIGGER_UNIQUE

\* main.py:2145  (_last_auto_run_ts or 0.0)
last_ts(ts) == IF ts = NoTs THEN 0 ELSE ts

\* main.py:2146-2147
recent_enough_count(now, ts) == (now - last_ts(ts)) >= AUTO_ANALYSIS_MIN_INTERVAL_SEC
recent_enough_size(now, ts)  == (now - last_ts(ts)) >= AUTO_SIZE_MIN_INTERVAL_SEC

\* variant: the in-progress flag is not consulted
idle_Always(flag) == TRUE

\* main.py:2148
idle(flag) == ~flag

\* main.py:2151
ShouldFire(buf, bytes, ids, now, ts, flag) ==
    /\ idle(flag)
    /\ \/ size_pressure(bytes, ids) /\ recent_enough_size(now, ts)
       \/ count_pressure(buf) /\ recent_enough_count(now, ts)

\* main.py:2152
ReasonOf(bytes, ids) ==
    IF size_pressure(bytes, ids) THEN "Auto (size pressure)"
    ELSE "Auto (event threshold)"

\* main.py:2108-2153: one well-formed event, from the stream to create_task
HandleEvent(evt) ==
    LET eid   == evt[1]
        data  == [ts |-> stream_pos + 1, entity_id |-> eid,
                  from |-> evt[2], to |-> evt[3]]
        buf   == AppendEvict(EVENT_BUFFER, data)
        bytes == EVENT_BYTES + approx_len(data)
        ids   == IF StrOrEmpty(eid) # "" THEN EVENT_UNIQUE_IDS \cup {eid}
                 ELSE EVENT_UNIQUE_IDS
        fire  == ShouldFire(buf, bytes, ids, now_mono, _last_auto_run_ts,
                            in_progress)
    IN  /\ stream_pos < MaxEvents
        /\ EVENT_LOCK = "free"
        /\ EVENT_LOCK' = ReleaseLock("listener")
        /\ stream_pos' = stream_pos + 1
        /\ EVENT_BUFFER' = buf
        /\ EVENT_BYTES' = bytes
        /\ EVENT_UNIQUE_IDS' = ids
        /\ since_clear' = Append(since_clear, data)
        /\ IF fire
           THEN /\ FreeSlots # {}
                /\ LET t == CHOOSE s \in FreeSlots : \A u \in FreeSlots : s <= u
                   IN  tasks' = [tasks EXCEPT ![t] =
                                   [NoTask EXCEPT !.pc = "created",
                                                  !.reason = ReasonOf(bytes, ids),
                                                  !.trig = buf]]
           ELSE tasks' = tasks
        /\ UNCHANGED <<in_progress, _last_auto_run_ts, now_mono, cfg_mode,
                       db_rows, manual_runs, manual_mode, manual_events,
                   pvars, hvars, fvars, lvars>>

\* variant: missing keys are read as None and the event is buffered
HandleMalformedEvent_BuffersIt ==
    LET data == [ts |-> stream_pos + 1, entity_id |-> None,
                 from |-> None, to |-> None]
    IN  /\ stream_pos < MaxEvents
        /\ stream_pos' = stream_pos + 1
        /\ EVENT_BUFFER' = AppendEvict(EVENT_BUFFER, data)
        /\ EVENT_BYTES' = EVENT_BYTES + approx_len(data)
        /\ UNCHANGED <<EVENT_UNIQUE_IDS, in_progress,
                       _last_auto_run_ts, now_mono, cfg_mode, tasks, db_rows,
                       manual_runs, manual_mode, manual_events, since_clear,
                       EVENT_LOCK, pvars, hvars, fvars, lvars>>

\* main.py:2109-2115, 2155-2156: building `data` raises (a key is missing),
\* the inner except logs it and the loop takes the next event
HandleMalformedEvent ==
    /\ stream_pos < MaxEvents
    /\ stream_pos' = stream_pos + 1
    /\ UNCHANGED <<EVENT_BUFFER, EVENT_BYTES, EVENT_UNIQUE_IDS, in_progress,
                   _last_auto_run_ts, now_mono, cfg_mode, tasks, db_rows,
                   manual_runs, manual_mode, manual_events, since_clear,
                   EVENT_LOCK, pvars, hvars, fvars, lvars>>

ha_event_listener ==
    \/ \E evt \in StreamEvents : HandleEvent(evt)
    \/ HandleMalformedEvent

(* ---------------- _auto_trigger / _perform_analysis ---------------- *)
\* variant: the snapshot has no `if not events: return` after it
SnapshotAndClear_NoEmptyReturn(t, keep) ==
    /\ tasks' = [tasks EXCEPT ![t].events = LastN(EVENT_BUFFER, keep),
                              ![t].mode = "passive",
                              ![t].pc = "fetch"]
    /\ EVENT_LOCK = "free"
    /\ EVENT_LOCK' = ReleaseLock(t)
    /\ EVENT_BUFFER' = <<>>
    /\ EVENT_BYTES' = 0
    /\ EVENT_UNIQUE_IDS' = {}
    /\ since_clear' = <<>>

\* variant: the snapshot forgets to clear EVENT_UNIQUE_IDS
SnapshotAndClear_KeepsIds(t, keep) ==
    /\ tasks' = [tasks EXCEPT ![t].events = LastN(EVENT_BUFFER, keep),
                              ![t].mode = "passive",
                              ![t].pc = IF EVENT_BUFFER = <<>>
                                        THEN "close_empty" ELSE "fetch"]
    /\ EVENT_LOCK = "free"
    /\ EVENT_LOCK' = ReleaseLock(t)
    /\ EVENT_BUFFER' = <<>>
    /\ EVENT_BYTES' = 0
    /\ EVENT_UNIQUE_IDS' = EVENT_UNIQUE_IDS
    /\ since_clear' = <<>>

\* variant: the snapshot copies the buffer and does not clear it
SnapshotAndClear_NoClear(t, keep) ==
    /\ tasks' = [tasks EXCEPT ![t].events = LastN(EVENT_BUFFER, keep),
                              ![t].mode = "passive",
                              ![t].pc = IF EVENT_BUFFER = <<>>
                                        THEN "close_empty" ELSE "fetch"]
    /\ EVENT_LOCK = "free"
    /\ EVENT_LOCK' = ReleaseLock(t)
    /\ EVENT_BUFFER' = EVENT_BUFFER
    /\ EVENT_BYTES' = 0
    /\ EVENT_UNIQUE_IDS' = {}
    /\ since_clear' = since_clear

\* main.py:1117-1125
SnapshotAndClear(t, keep) ==
    /\ tasks' = [tasks EXCEPT ![t].events = LastN(EVENT_BUFFER, keep),
                              ![t].mode = "passive",
                              ![t].pc = IF EVENT_BUFFER = <<>>
                                        THEN "close_empty" ELSE "fetch"]
    /\ EVENT_LOCK = "free"
    /\ EVENT_LOCK' = ReleaseLock(t)
    /\ EVENT_BUFFER' = <<>>
    /\ EVENT_BYTES' = 0
    /\ EVENT_UNIQUE_IDS' = {}
    /\ since_clear' = <<>>

\* main.py:2163-2167, 1105-1128 (passive) / 1236-1238 (active): the task's
\* first stretch, up to its first suspension
AutoStart(t) ==
    /\ tasks[t].pc = "created"
    /\ in_progress' = TRUE
    /\ IF cfg_mode = "passive"
       THEN SnapshotAndClear(t, EVENT_BUFFER_MAX)
       ELSE /\ tasks' = [tasks EXCEPT ![t].mode = cfg_mode, ![t].pc = "fetch"]
            /\ UNCHANGED <<EVENT_BUFFER, EVENT_BYTES, EVENT_UNIQUE_IDS,
                           EVENT_LOCK, since_clear>>
    /\ UNCHANGED <<_last_auto_run_ts, now_mono, cfg_mode, db_rows, stream_pos,
                   manual_runs, manual_mode, manual_events, pvars, hvars, fvars, lvars>>

\* main.py:1128-1233 / 1238-1243: topology, states and history arrive, the
\* history is compressed, the prompt composed and the (synchronous) model
\* call returns; the task suspends in `finally: await ha.close()`
FetchAndModelOk(t) ==
    /\ tasks[t].pc = "fetch"
    /\ tasks' = [tasks EXCEPT ![t].pc = "close_ok", ![t].llm = TRUE]
    /\ UNCHANGED <<EVENT_BUFFER, EVENT_BYTES, EVENT_UNIQUE_IDS, in_progress,
                   _last_auto_run_ts, now_mono, cfg_mode, db_rows, stream_pos,
                   manual_runs, manual_mode, manual_events, since_clear,
                   EVENT_LOCK, pvars, hvars, fvars, lvars>>

\* main.py:1128, 1131, 1233, 1238, 1241: a fetch raises (the model was not
\* called) or the model call itself raises
FetchOrModelRaises(t) ==
    /\ tasks[t].pc = "fetch"
    /\ \E called \in BOOLEAN :
           tasks' = [tasks EXCEPT ![t].pc = "close_err", ![t].llm = called]
    /\ UNCHANGED <<EVENT_BUFFER, EVENT_BYTES, EVENT_UNIQUE_IDS, in_progress,
                   _last_auto_run_ts, now_mono, cfg_mode, db_rows, stream_pos,
                   manual_runs, manual_mode, manual_events, since_clear,
                   EVENT_LOCK, pvars, hvars, fvars, lvars>>

\* main.py:1245-1246, 1253-1285: ha.close() returns, the row is persisted
\* and the task suspends in `await ha_notify.notify(...)`
Persist(t) ==
    /\ tasks[t].pc = "close_ok"
    /\ db_rows' = db_rows + 1
    /\ tasks' = [tasks EXCEPT ![t].pc = "notify", ![t].row = db_rows + 1]
    /\ UNCHANGED <<EVENT_BUFFER, EVENT_BYTES, EVENT_UNIQUE_IDS, in_progress,
                   _last_auto_run_ts, now_mono, cfg_mode, stream_pos,
                   manual_runs, manual_mode, manual_events, since_clear,
                   EVENT_LOCK, pvars, hvars, fvars, lvars>>

\* main.py:2168-2170, 2173-2174: _perform_analysis returned
ReturnOk(t) ==
    /\ _last_auto_run_ts' = now_mono
    /\ in_progress' = FALSE
    /\ tasks' = [tasks EXCEPT ![t].pc = "done"]
    /\ UNCHANGED <<EVENT_BUFFER, EVENT_BYTES, EVENT_UNIQUE_IDS, now_mono,
                   cfg_mode, db_rows, stream_pos, manual_runs, manual_mode,
                   manual_events, since_clear,
                   EVENT_LOCK, pvars, hvars, fvars, lvars>>

\* variant: the timestamp is written in the finally block
ReturnRaised_SetsTs(t) ==
    /\ _last_auto_run_ts' = now_mono
    /\ in_progress' = FALSE
    /\ tasks' = [tasks EXCEPT ![t].pc = "failed"]
    /\ UNCHANGED <<EVENT_BUFFER, EVENT_BYTES, EVENT_UNIQUE_IDS, now_mono,
                   cfg_mode, db_rows, stream_pos, manual_runs, manual_mode,
                   manual_events, since_clear,
                   EVENT_LOCK, pvars, hvars, fvars, lvars>>

\* variant: the flag is cleared on the success path only
ReturnRaised_LeavesFlag(t) ==
    /\ tasks' = [tasks EXCEPT ![t].pc = "failed"]
    /\ UNCHANGED <<EVENT_BUFFER, EVENT_BYTES, EVENT_UNIQUE_IDS, in_progress,
                   _last_auto_run_ts, now_mono, cfg_mode, db_rows, stream_pos,
                   manual_runs, manual_mode, manual_events, since_clear,
                   EVENT_LOCK, pvars, hvars, fvars, lvars>>

\* main.py:2171-2174: _perform_analysis raised
ReturnRaised(t) ==
    /\ in_progress' = FALSE
    /\ tasks' = [tasks EXCEPT ![t].pc = "failed"]
    /\ UNCHANGED <<EVENT_BUFFER, EVENT_BYTES, EVENT_UNIQUE_IDS,
                   _last_auto_run_ts, now_mono, cfg_mode, db_rows, stream_pos,
                   manual_runs, manual_mode, manual_events, since_clear,
                   EVENT_LOCK, pvars, hvars, fvars, lvars>>

\* main.py:1285-1292, 2168-2174: the notification is sent
NotifyOk(t) == tasks[t].pc = "notify" /\ ReturnOk(t)

\* main.py:1282-1290: notify raises; there is no except around it
NotifyRaises(t) == tasks[t].pc = "notify" /\ ReturnRaised(t)

\* variant: a run that persisted nothing leaves the timestamp alone
EmptyReturn_LeavesTs(t) ==
    /\ tasks[t].pc = "close_empty"
    /\ in_progress' = FALSE
    /\ tasks' = [tasks EXCEPT ![t].pc = "done"]
    /\ UNCHANGED <<EVENT_BUFFER, EVENT_BYTES, EVENT_UNIQUE_IDS,
                   _last_auto_run_ts, now_mono, cfg_mode, db_rows, stream_pos,
                   manual_runs, manual_mode, manual_events, since_clear,
                   EVENT_LOCK, pvars, hvars, fvars, lvars>>

\* main.py:1124-1125, 1245-1246: empty snapshot, row = None
EmptyReturn(t) == tasks[t].pc = "close_empty" /\ ReturnOk(t)

\* variant: the row is persisted in the finally block, also after an error
CloseAfterError_Persists(t) ==
    /\ tasks[t].pc = "close_err"
    /\ in_progress' = FALSE
    /\ db_rows' = db_rows + 1
    /\ tasks' = [tasks EXCEPT ![t].pc = "failed", ![t].row = db_rows + 1]
    /\ UNCHANGED <<EVENT_BUFFER, EVENT_BYTES, EVENT_UNIQUE_IDS,
                   _last_auto_run_ts, now_mono, cfg_mode, stream_pos,
                   manual_runs, manual_mode, manual_events, since_clear,
                   EVENT_LOCK, pvars, hvars, fvars, lvars>>

\* main.py:1245-1246, 2171-2174: ha.close() returns and the exception
\* reaches _auto_trigger
CloseAfterError(t) == tasks[t].pc = "close_err" /\ ReturnRaised(t)

_auto_trigger ==
    \E t \in 1..MaxTasks :
        \/ AutoStart(t)
        \/ FetchAndModelOk(t)
        \/ FetchOrModelRaises(t)
        \/ Persist(t)
        \/ NotifyOk(t)
        \/ NotifyRaises(t)
        \/ EmptyReturn(t)
        \/ CloseAfterError(t)

(* ---------------- POST /api/run ---------------- *)
\* main.py:1702-1726: the request's first stretch; in passive mode it
\* snapshots and clears, the rest of the request touches no shared state
run_analysis(mode) ==
    /\ manual_runs < MaxManual
    /\ manual_runs' = manual_runs + 1
    /\ manual_mode' = mode
    /\ IF mode = "passive"
       THEN /\ EVENT_LOCK = "free"
            /\ EVENT_LOCK' = ReleaseLock("manual")
            /\ manual_events' = LastN(EVENT_BUFFER, MANUAL_RUN_MAX)
            /\ EVENT_BUFFER' = <<>>
            /\ EVENT_BYTES' = 0
            /\ EVENT_UNIQUE_IDS' = {}
            /\ since_clear' = <<>>
       ELSE UNCHANGED <<manual_events, EVENT_BUFFER, EVENT_BYTES,
                        EVENT_UNIQUE_IDS, EVENT_LOCK, since_clear>>
    /\ UNCHANGED <<in_progress, _last_auto_run_ts, now_mono, cfg_mode, tasks,
                   db_rows, stream_pos, pvars, hvars, fvars, lvars>>

\* the loop's monotonic clock advances
Tick ==
    /\ now_mono < MaxNow
    /\ now_mono' = now_mono + TickSec
    /\ UNCHANGED <<EVENT_BUFFER, EVENT_BYTES, EVENT_UNIQUE_IDS, in_progress,
                   _last_auto_run_ts, cfg_mode, tasks, db_rows, stream_pos,
                   manual_runs, manual_mode, manual_events, since_clear,
                   EVENT_LOCK, pvars, hvars, fvars, lvars>>

Next ==
    \/ ha_event_listener
    \/ _auto_trigger
    \/ \E mode \in Modes : run_analysis(mode)
    \/ Tick

Spec == Init /\ [][Next]_vars

(* ---------------- Prompt Compactor ---------------- *)
\* A text is the sequence of its lines ("\n".join(lines)); only "\n" breaks
\* lines.  A line carries its length and what strip_noise sees in it:
\* "plain", "noise" (matches _NOISE_LINES) or "blank" (line.strip() is
\* empty).  The empty string is <<>>.

\* main.py:66-71
TOPO_MAX_CHARS == 4000
STATE_MAX_CHARS == 6000
HISTORY_MAX_CHARS == 9000
EVENTS_MAX_CHARS == 3000
TOTAL_MAX_CHARS == 26000
CONTEXT_MAX_CHARS == 2000

Ln(n, c) == [len |-> n, cls |-> c]
EmptyLine == Ln(0, "blank")
\* main.py:830  "… [truncated]", 13 characters
TruncMarker == Ln(13, "marker")

RECURSIVE SumLen(_)
SumLen(t) == IF t = <<>> THEN 0 ELSE t[1].len + SumLen(Tail(t))

\* Python len(text)
TextLen(t) == IF t = <<>> THEN 0 ELSE SumLen(t) + Len(t) - 1

\* the lines of a string as "\n".join would need them: "" is one empty line
AsLines(t) == IF t = <<>> THEN <<EmptyLine>> ELSE t

\* Python "\n".join(lines)
JoinLines(lines) == IF lines = <<EmptyLine>> THEN <<>> ELSE lines

\* Python text.splitlines(): no line for "", none after a final "\n"
splitlines(t) ==
    IF t = <<>> THEN <<>>
    ELSE IF t[Len(t)].len = 0 THEN SubSeq(t, 1, Len(t) - 1)
    ELSE t

\* Python a + b
Concat(a, b) ==
    LET la == AsLines(a)
        lb == AsLines(b)
        x  == la[Len(la)]
        y  == lb[1]
        xy == Ln(x.len + y.len, IF x.len = 0 THEN y.cls ELSE x.cls)
    IN  JoinLines(SubSeq(la, 1, Len(la) - 1) \o <<xy>> \o Tail(lb))

\* main.py:806-815
RECURSIVE KeepSignal(_)
KeepSignal(lines) ==
    IF lines = <<>> THEN <<>>
    ELSE IF lines[1].len = 0 \/ lines[1].cls \in {"blank", "noise"}
         THEN KeepSignal(Tail(lines))
         ELSE <<lines[1]>> \o KeepSignal(Tail(lines))

strip_noise(text) == JoinLines(KeepSignal(splitlines(text)))

\* variant: the line that does not fit is cut to the remaining budget
RECURSIVE ClampLoop_CutsMidLine(_, _, _)
ClampLoop_CutsMidLine(lines, used, max_chars) ==
    IF lines = <<>> THEN <<>>
    ELSE LET ln == lines[1].len + 1
         IN  IF used + ln > max_chars
             THEN IF max_chars - used > 1
                  THEN <<Ln(max_chars - used - 1, lines[1].cls)>>
                  ELSE <<>>
             ELSE <<lines[1]>>
                  \o ClampLoop_CutsMidLine(Tail(lines), used + ln, max_chars)

\* variant: a line that does not fit is skipped and the loop goes on
RECURSIVE ClampLoop_SkipsLongLines(_, _, _)
ClampLoop_SkipsLongLines(lines, used, max_chars) ==
    IF lines = <<>> THEN <<>>
    ELSE LET ln == lines[1].len + 1
         IN  IF used + ln > max_chars
             THEN ClampLoop_SkipsLongLines(Tail(lines), used, max_chars)
             ELSE <<lines[1]>>
                  \o ClampLoop_SkipsLongLines(Tail(lines), used + ln, max_chars)

\* main.py:822-829: the loop of clamp_chars
RECURSIVE ClampLoop(_, _, _)
ClampLoop(lines, used, max_chars) ==
    IF lines = <<>> THEN <<>>
    ELSE LET ln == lines[1].len + 1
         IN  IF used + ln > max_chars THEN <<>>
             ELSE <<lines[1]>> \o ClampLoop(Tail(lines), used + ln, max_chars)

\* main.py:817-831
clamp_chars(text, max_chars) ==
    IF TextLen(text) <= max_chars THEN text
    ELSE JoinLines(ClampLoop(splitlines(text), 0, max_chars) \o <<TruncMarker>>)

\* main.py:893-897: the header for a language tag of lang_len characters
Header(lang_len) ==
    <<Ln(11 + lang_len, "header"), Ln(61, "header"), Ln(77, "header"),
      EmptyLine, EmptyLine>>

\* "USER CONTEXT MEMOS (from prior feedback):\n" and "EVENTS:\n"
ContextLabel == <<Ln(41, "label"), EmptyLine>>
EventsLabel == <<Ln(7, "label"), EmptyLine>>

\* Python "\n\n".join(parts)
RECURSIVE JoinBlank(_)
JoinBlank(parts) ==
    IF parts = <<>> THEN <<>>
    ELSE IF Len(parts) = 1 THEN parts[1]
    ELSE Concat(Concat(parts[1], <<EmptyLine, EmptyLine, EmptyLine>>),
                JoinBlank(Tail(parts)))

\* main.py:887-909
ComposeBody(in) ==
    LET topo    == clamp_chars(strip_noise(in.topo), TOPO_MAX_CHARS)
        state   == clamp_chars(strip_noise(in.state_block), STATE_MAX_CHARS)
        history == clamp_chars(in.history_block, HISTORY_MAX_CHARS)
        events  == IF in.events_block # <<>>
                   THEN clamp_chars(in.events_block, EVENTS_MAX_CHARS)
                   ELSE <<>>
        context == IF in.context_block # <<>>
                   THEN clamp_chars(in.context_block, CONTEXT_MAX_CHARS)
                   ELSE <<>>
        parts   == (IF context # <<>> THEN <<Concat(ContextLabel, context)>>
                    ELSE <<>>)
                   \o <<topo, state, history>>
                   \o (IF events # <<>> THEN <<Concat(EventsLabel, events)>>
                       ELSE <<>>)
    IN  JoinBlank(parts)

\* main.py:877-910
compose_user_prompt(in) ==
    clamp_chars(Concat(Header(in.lang_len), ComposeBody(in)), TOTAL_MAX_CHARS)

\* texts around a ceiling m: empty, exactly m, a short last line that does
\* not fit, one over-long line, and noise and blank lines around the signal
BlockTexts(m) ==
    { <<>>,
      <<Ln(m, "plain")>>,
      <<Ln(m - 10, "plain"), Ln(20, "plain")>>,
      <<Ln(m + 1, "plain")>>,
      <<Ln(30, "noise"), Ln(m - 10, "plain"), Ln(2, "blank"), Ln(8, "plain")>> }

\* lengths of the configured language tag: "en", and free strings long
\* enough for the final clamp to cut in the last block or in the middle ones
LangLens == {2, 1790, 6000}

PromptInputs ==
    [lang_len : LangLens,
     topo : BlockTexts(TOPO_MAX_CHARS),
     state_block : BlockTexts(STATE_MAX_CHARS),
     history_block : BlockTexts(HISTORY_MAX_CHARS),
     events_block : BlockTexts(EVENTS_MAX_CHARS),
     context_block : BlockTexts(CONTEXT_MAX_CHARS)]

BlockNames == {"topo", "state_block", "history_block", "events_block",
               "context_block"}
Ceilings == {TOPO_MAX_CHARS, STATE_MAX_CHARS, HISTORY_MAX_CHARS,
             EVENTS_MAX_CHARS, CONTEXT_MAX_CHARS}

InitPrompt ==
    /\ InitPipeline
    /\ now_mono = 0
    /\ cfg_mode = "passive"
    /\ p_pc = "input"
    /\ p_in \in PromptInputs
    /\ p_arg = <<>>
    /\ p_max = 0
    /\ p_out = <<>>
    /\ HistoryIdle
    /\ FetchIdle
    /\ LimiterIdle

\* one call of compose_user_prompt
Compose ==
    /\ p_pc = "input"
    /\ p_pc' = "composed"
    /\ p_out' = compose_user_prompt(p_in)
    /\ UNCHANGED <<p_in, p_arg, p_max, evars, hvars, fvars, lvars>>

\* one call of clamp_chars
Clamp ==
    /\ p_pc = "input"
    /\ \E b \in BlockNames, m \in Ceilings :
         /\ p_arg' = p_in[b]
         /\ p_max' = m
         /\ p_out' = clamp_chars(p_in[b], m)
    /\ p_pc' = "clamped"
    /\ UNCHANGED <<p_in, evars, hvars, fvars, lvars>>

NextPrompt == Compose \/ Clamp

SpecPrompt == InitPrompt /\ [][NextPrompt]_vars

(* ---------------- History Compressor ---------------- *)
\* Timestamps are whole seconds counted from the earliest sample the model
\* draws.  A state is the string Home Assistant reports, in the model always
\* lower-case and without surrounding blanks.  An entity id is the sequence
\* of its parts between dots ("door.front" is <<"door", "front">>).  A
\* series is [eid, attrs, rows]: eid is series[0]["entity_id"], rows are
\* (timestamp, state) and attrs says what row.get("attributes", {}) gives:
\* "null" (the key holds None), "empty" ({}) or "kWh"
\* ({"unit_of_measurement": "kWh"}).

\* main.py:75-76
TRUE_STATES ==
    {"on", "open", "unlocked", "detected", "motion", "home", "present"}
FALSE_STATES ==
    {"off", "closed", "locked", "clear", "no_motion", "away", "not_home"}
\* main.py:999
BINARY_DOMAINS == {"binary_sensor", "lock", "cover", "switch"}
\* main.py:1083
UNUSABLE_STATES == {"unknown", "unavailable", "none"}
\* main.py:953
JITTER_SEC_DEFAULT == 90
\* seconds per hour, main.py:947, 1028
HourSec == 3600

NoFloat == -1       \* Python None for _try_float (model values are >= 0)

Abs(x) == IF x < 0 THEN 0 - x ELSE x
Max2(a, b) == IF a >= b THEN a ELSE b

\* main.py:923-929: the decimal strings of the model and their values
_try_float(x) ==
    CASE x = "10" -> 10
      [] x = "12" -> 12
      [] x = "55" -> 55
      [] x = "58" -> 58
      [] OTHER -> NoFloat

\* main.py:931-932
_domain_of(eid) == IF Len(eid) >= 2 THEN eid[1] ELSE ""

\* main.py:934-940: "true", "false" or "none" for Python True, False, None
_is_true_state(s) ==
    IF s \in TRUE_STATES THEN "true"
    ELSE IF s \in FALSE_STATES THEN "false"
    ELSE "none"

\* Python format(num / den, ".0f") for num >= 0, den > 0: nearest integer,
\* a tie goes to the even one
RoundHalfEven(num, den) ==
    LET q == num \div den
        r == num % den
    IN  IF 2 * r < den THEN q
        ELSE IF 2 * r > den THEN q + 1
        ELSE IF q % 2 = 0 THEN q ELSE q + 1

\* main.py:942-943 applied to true_dur / total (true_dur >= 0, total # 0):
\* the digits before "%" and whether a minus sign precedes them
_format_pct(true_dur, total) ==
    [neg |-> total < 0, digits |-> RoundHalfEven(true_dur, Abs(total))]

\* main.py:945-951: hours and minutes printed ("{h}h {m}m", or "{m}m"
\* when h = 0)
_sec_hm(sec) ==
    LET s == Max2(0, sec)
    IN  [h |-> s \div HourSec, m |-> (s % HourSec) \div 60]

\* Python str.upper() on the states of the model
Upper(s) ==
    CASE s = "open" -> "OPEN"
      [] s = "closed" -> "CLOSED"
      [] s = "unavailable" -> "UNAVAILABLE"
      [] OTHER -> s

\* main.py:970: rows.sort(key=lambda x: x[0]), a stable sort
RECURSIVE InsertByTs(_, _)
InsertByTs(sorted, r) ==
    IF sorted = <<>> THEN <<r>>
    ELSE IF sorted[Len(sorted)].ts <= r.ts THEN Append(sorted, r)
    ELSE Append(InsertByTs(SubSeq(sorted, 1, Len(sorted) - 1), r),
                sorted[Len(sorted)])

RECURSIVE SortByTs(_)
SortByTs(rows) ==
    IF rows = <<>> THEN <<>>
    ELSE InsertByTs(SortByTs(SubSeq(rows, 1, Len(rows) - 1)), rows[Len(rows)])

\* variant: a sample is compared with the first sample of the current
\* group, and the group still keeps its latest sample
RECURSIVE CoalesceFrom_AnchorFirst(_, _, _, _)
CoalesceFrom_AnchorFirst(acc, anchor, rows, jitter_sec) ==
    IF rows = <<>> THEN acc
    ELSE IF acc # <<>> /\ rows[1].ts - anchor <= jitter_sec
         THEN CoalesceFrom_AnchorFirst([acc EXCEPT ![Len(acc)] = rows[1]],
                                       anchor, Tail(rows), jitter_sec)
         ELSE CoalesceFrom_AnchorFirst(Append(acc, rows[1]), rows[1].ts,
                                       Tail(rows), jitter_sec)

\* main.py:974-979: the loop over the sorted rows
RECURSIVE CoalesceFrom(_, _, _)
CoalesceFrom(acc, rows, jitter_sec) ==
    IF rows = <<>> THEN acc
    ELSE IF acc # <<>> /\ rows[1].ts - acc[Len(acc)].ts <= jitter_sec
         THEN CoalesceFrom([acc EXCEPT ![Len(acc)] = rows[1]], Tail(rows),
                           jitter_sec)
         ELSE CoalesceFrom(Append(acc, rows[1]), Tail(rows), jitter_sec)

Coalesce_AnchorFirst(rows, jitter_sec) ==
    CoalesceFrom_AnchorFirst(<<>>, 0, rows, jitter_sec)

\* main.py:972-980
Coalesce(rows, jitter_sec) == CoalesceFrom(<<>>, rows, jitter_sec)

\* main.py:987-991
RECURSIVE ValsOf(_)
ValsOf(rows) ==
    IF rows = <<>> THEN <<>>
    ELSE (IF _try_float(rows[1].st) # NoFloat
             /\ rows[1].st \notin {"unknown", "unavailable"}
          THEN <<_try_float(rows[1].st)>> ELSE <<>>)
         \o ValsOf(Tail(rows))

\* Python min, max, sum of a non-empty list
RECURSIVE SeqMin(_)
SeqMin(s) ==
    IF Len(s) = 1 THEN s[1]
    ELSE LET m == SeqMin(Tail(s)) IN IF s[1] <= m THEN s[1] ELSE m
RECURSIVE SeqMax(_)
SeqMax(s) ==
    IF Len(s) = 1 THEN s[1]
    ELSE LET m == SeqMax(Tail(s)) IN IF s[1] >= m THEN s[1] ELSE m
RECURSIVE SeqSum(_)
SeqSum(s) == IF s = <<>> THEN 0 ELSE s[1] + SeqSum(Tail(s))

\* main.py:1005-1008: from sample i to the next timestamp, or to now
GapAfter(rows, i, now) ==
    (IF i < Len(rows) THEN rows[i + 1].ts ELSE now) - rows[i].ts

\* main.py:1001-1011: true_dur and longest_true after the loop has handled
\* samples i..Len(rows)
RECURSIVE TrueDurFrom(_, _, _)
TrueDurFrom(rows, i, now) ==
    IF i > Len(rows) THEN 0
    ELSE (IF _is_true_state(rows[i].st) = "true"
          THEN Max2(0, GapAfter(rows, i, now)) ELSE 0)
         + TrueDurFrom(rows, i + 1, now)
RECURSIVE LongestTrueFrom(_, _, _)
LongestTrueFrom(rows, i, now) ==
    IF i > Len(rows) THEN 0
    ELSE Max2(IF _is_true_state(rows[i].st) = "true"
              THEN Max2(0, GapAfter(rows, i, now)) ELSE 0,
              LongestTrueFrom(rows, i + 1, now))

\* main.py:1012: (now - rows[0][0]).total_seconds() or 1.0
TotalSec(rows, now) ==
    IF now - rows[1].ts = 0 THEN 1 ELSE now - rows[1].ts

\* main.py:1016-1024
pretty_state(domain, last_state_str) ==
    IF domain = "lock"
    THEN IF _is_true_state(last_state_str) = "true" THEN "UNLOCKED"
         ELSE "LOCKED"
    ELSE IF domain = "cover"
    THEN IF _is_true_state(last_state_str) = "true" THEN "OPEN" ELSE "CLOSED"
    ELSE IF domain = "binary_sensor"
    THEN IF _is_true_state(last_state_str) = "true" THEN "ON" ELSE "OFF"
    ELSE Upper(last_state_str)

\* main.py:1028, 1063: max(1.0, len(rows) / max(1.0, secs / 3600.0)) as the
\* fraction num / den
RowsPerHour(n, secs) ==
    IF secs <= HourSec THEN [num |-> Max2(1, n), den |-> 1]
    ELSE IF HourSec * n >= secs THEN [num |-> HourSec * n, den |-> secs]
    ELSE [num |-> 1, den |-> 1]

\* variant: every change counts that reaches a tenth of the range
IsJump_NoFloor(prev, v, rng) == 10 * Abs(v - prev) >= rng

\* main.py:1042: abs(v - prev) >= max(1.0, 0.10 * rng), on whole numbers
IsJump(prev, v, rng) ==
    /\ Abs(v - prev) >= 1
    /\ 10 * Abs(v - prev) >= rng

\* main.py:1038-1044
RECURSIVE CountJumps(_, _)
CountJumps(vals, rng) ==
    IF Len(vals) < 2 THEN 0
    ELSE (IF IsJump(vals[1], vals[2], rng) THEN 1 ELSE 0)
         + CountJumps(Tail(vals), rng)

\* main.py:1046, 1049: the unit printed after a number, and whether the
\* entity counts as an energy meter
UnitOf(attrs) == IF attrs = "kWh" THEN "kWh" ELSE ""
EnergyLike(eid, unit) ==
    unit = "kWh" \/ \E i \in 1..Len(eid) : eid[i] = "energy_total"

\* the fields a summary line is printed from; the binary, numeric and
\* fallback formats each print some of them
NoLine ==
    [path |-> "empty", eid |-> <<>>, state |-> "",
     pct |-> [neg |-> FALSE, digits |-> 0],
     longest |-> [h |-> 0, m |-> 0], ago |-> [h |-> 0, m |-> 0],
     v_now |-> NoFloat, v_min |-> 0, v_max |-> 0, avg_x100 |-> 0,
     changes |-> 0, has_delta |-> FALSE, delta |-> 0, unit |-> ""]

Returned(line, score) == [raised |-> FALSE, line |-> line, score |-> score]
Raised == [raised |-> TRUE, line |-> NoLine, score |-> [num |-> 0, den |-> 1]]

\* main.py:998-1032: which of the three formats the coalesced rows take
PathOf(eid, rows) ==
    IF (\E i \in 1..Len(rows) : _is_true_state(rows[i].st) # "none")
       /\ _domain_of(eid) \in BINARY_DOMAINS
    THEN "binary"
    ELSE IF Len(ValsOf(rows)) >= 2 THEN "numeric"
    ELSE "fallback"

\* main.py:999-1029
BinaryLine(eid, rows, now) ==
    Returned([NoLine EXCEPT
                !.path = "binary",
                !.eid = eid,
                !.state = pretty_state(_domain_of(eid), rows[Len(rows)].st),
                !.pct = _format_pct(TrueDurFrom(rows, 1, now),
                                    TotalSec(rows, now)),
                !.longest = _sec_hm(LongestTrueFrom(rows, 1, now)),
                !.ago = _sec_hm(now - rows[Len(rows)].ts)],
             RowsPerHour(Len(rows), now - rows[1].ts))

\* main.py:1032-1059; last_attr.get raises when the attributes are None
NumericLine(eid, attrs, rows) ==
    LET vals  == ValsOf(rows)
        rng   == SeqMax(vals) - SeqMin(vals)
        jumps == CountJumps(vals, rng)
        unit  == UnitOf(attrs)
        delta == vals[Len(vals)] - vals[1]
    IN  IF attrs = "null" THEN Raised
        ELSE Returned([NoLine EXCEPT
                         !.path = "numeric",
                         !.eid = eid,
                         !.state = rows[Len(rows)].st,
                         !.v_now = _try_float(rows[Len(rows)].st),
                         !.v_min = SeqMin(vals),
                         !.v_max = SeqMax(vals),
                         !.avg_x100 = RoundHalfEven(100 * SeqSum(vals),
                                                    Len(vals)),
                         !.changes = jumps,
                         !.has_delta = EnergyLike(eid, unit) /\ delta # 0,
                         !.delta = IF EnergyLike(eid, unit) THEN delta ELSE 0,
                         !.unit = unit],
                      [num |-> Max2(1, jumps), den |-> 1])

\* main.py:1061-1064
FallbackLine(eid, rows, now) ==
    Returned([NoLine EXCEPT
                !.path = "fallback",
                !.eid = eid,
                !.state = rows[Len(rows)].st,
                !.ago = _sec_hm(now - rows[Len(rows)].ts)],
             RowsPerHour(Len(rows), now - rows[1].ts))

\* main.py:953-1064
_compress_entity_series(series, now, jitter_sec) ==
    IF series.rows = <<>>
    THEN Returned(NoLine, [num |-> 0, den |-> 1])
    ELSE LET rows == Coalesce(SortByTs(series.rows), jitter_sec)
             path == PathOf(series.eid, rows)
         IN  IF path = "binary" THEN BinaryLine(series.eid, rows, now)
             ELSE IF path = "numeric"
             THEN NumericLine(series.eid, series.attrs, rows)
             ELSE FallbackLine(series.eid, rows, now)

\* main.py:1083: all(str(r.get("state")).lower() in {...} for r in series)
AllUnusable(series) ==
    \A i \in 1..Len(series.rows) : series.rows[i].st \in UNUSABLE_STATES

\* variant: the try/except surrounds the loop, so the first series whose
\* compression raises ends the collection
RECURSIVE CollectLines_StopsAtFailure(_, _, _)
CollectLines_StopsAtFailure(hist, now, jitter_sec) ==
    IF hist = <<>> THEN <<>>
    ELSE LET series == hist[1]
             res    == _compress_entity_series(series, now, jitter_sec)
             tried  == series.rows # <<>> /\ ~AllUnusable(series)
         IN  IF tried /\ res.raised THEN <<>>
             ELSE (IF tried /\ res.line # NoLine
                   THEN <<[line |-> res.line, score |-> res.score]>>
                   ELSE <<>>)
                  \o CollectLines_StopsAtFailure(Tail(hist), now, jitter_sec)

\* main.py:1079-1091: the (line, score) pairs the loop collects; an empty
\* series, an all-unusable series and a series whose compression raises
\* add nothing
RECURSIVE CollectLines(_, _, _)
CollectLines(hist, now, jitter_sec) ==
    IF hist = <<>> THEN <<>>
    ELSE LET series == hist[1]
             res    == _compress_entity_series(series, now, jitter_sec)
             keep   == /\ series.rows # <<>>
                       /\ ~AllUnusable(series)
                       /\ ~res.raised
                       /\ res.line # NoLine
         IN  (IF keep THEN <<[line |-> res.line, score |-> res.score]>>
              ELSE <<>>)
             \o CollectLines(Tail(hist), now, jitter_sec)

\* variant: the sort is ascending
StaysBefore_Ascending(a, b) == a.score.num * b.score.den <= b.score.num * a.score.den

\* main.py:1097: in sort(key=score, reverse=True) an earlier pair a stays
\* before a later pair b when its score is not smaller
StaysBefore(a, b) == a.score.num * b.score.den >= b.score.num * a.score.den

RECURSIVE InsertByScore(_, _)
InsertByScore(sorted, x) ==
    IF sorted = <<>> THEN <<x>>
    ELSE IF StaysBefore(sorted[Len(sorted)], x) THEN Append(sorted, x)
    ELSE Append(InsertByScore(SubSeq(sorted, 1, Len(sorted) - 1), x),
                sorted[Len(sorted)])

RECURSIVE SortByScore(_)
SortByScore(pairs) ==
    IF pairs = <<>> THEN <<>>
    ELSE InsertByScore(SortByScore(SubSeq(pairs, 1, Len(pairs) - 1)),
                       pairs[Len(pairs)])

\* main.py:1067-1101: the returned text as its first line and the entity
\* lines under it
compress_history_for_prompt(hist, now, max_lines, jitter_sec) ==
    IF hist = <<>>
    THEN [head |-> "(no history available)", lines |-> <<>>]
    ELSE LET pairs == CollectLines(hist, now, jitter_sec)
             kept  == FirstN(SortByScore(pairs), max_lines)
         IN  IF pairs = <<>>
             THEN [head |-> "(history had no usable states)", lines |-> <<>>]
             ELSE [head |-> "HISTORY (compressed):",
                   lines |-> [i \in 1..Len(kept) |-> kept[i].line]]

(* ---- inputs of one _compress_entity_series call ---- *)
MaxBinSamples == 3
MaxNumSamples == 4

\* sample times: a chain closer than the default jitter (0, 80, 160), ten
\* minutes and seventy minutes
Times == {0, 80, 160, 600, 4200}
\* values of `now`: before some samples, at the last one, after all
Nows == {100, 4200, 7800}
\* history_jitter_sec of the config: the default and ten minutes
Jitters == {JITTER_SEC_DEFAULT, 600}

DoorFront == <<"door", "front">>
BinarySensorFront == <<"binary_sensor", "front">>
SensorPower == <<"sensor", "power">>
SensorEnergy == <<"sensor", "energy_total">>

BinStates == {"open", "closed", "unavailable"}
NumStates == {"10", "12", "55", "58", "unavailable"}
AttrKinds == {"null", "empty", "kWh"}
\* spacing of the numeric samples: inside and outside the jitter window
NumSteps == {80, 600}

Series(eid, attrs, rows) == [eid |-> eid, attrs |-> attrs, rows |-> rows]

\* samples every `step` seconds with the states sts
RowsAt(step, sts) ==
    [i \in 1..Len(sts) |-> [ts |-> (i - 1) * step, st |-> sts[i]]]

\* open/closed series in any order of arrival, the empty series included
BinSeries ==
    {Series(eid, "empty", rows) :
        eid \in {DoorFront, BinarySensorFront},
        rows \in UNION {[1..n -> [ts : Times, st : BinStates]] :
                            n \in 0..MaxBinSamples}}

\* numeric series sampled every `step` seconds
NumSeries ==
    {Series(eid, attrs, RowsAt(step, sts)) :
        eid \in {SensorPower, SensorEnergy},
        attrs \in AttrKinds,
        step \in NumSteps,
        sts \in UNION {[1..n -> NumStates] : n \in 1..MaxNumSamples}}

SeriesInputs ==
    [series : BinSeries \cup NumSeries, now : Nows, jitter_sec : Jitters]

InitSeries ==
    /\ InitPipeline
    /\ now_mono = 0
    /\ cfg_mode = "passive"
    /\ PromptIdle
    /\ FetchIdle
    /\ LimiterIdle
    /\ h_pc = "input"
    /\ h_in \in SeriesInputs
    /\ h_out = <<>>

\* one call of _compress_entity_series
CompressSeries ==
    /\ h_pc = "input"
    /\ h_pc' = "compressed"
    /\ h_out' = _compress_entity_series(h_in.series, h_in.now, h_in.jitter_sec)
    /\ UNCHANGED <<h_in, evars, pvars, fvars, lvars>>

NextSeries == CompressSeries

SpecSeries == InitSeries /\ [][NextSeries]_vars

(* ---- inputs of one compress_history_for_prompt call ---- *)
MaxSeries == 4
MaxKeep == 2

\* the time of the call, after every sample
HistoryNow == 7800

\* entities of one history answer: two without a usable state, a door
\* contact, three numeric sensors of different liveliness (one of them with
\* attributes None, whose compression raises) and a text state
HistSeries ==
    { Series(<<"sensor", "dead">>, "empty",
             RowsAt(600, <<"unavailable", "unknown">>)),
      Series(<<"sensor", "fresh">>, "empty", <<>>),
      Series(BinarySensorFront, "empty",
             <<[ts |-> 0, st |-> "closed"], [ts |-> 600, st |-> "open"],
               [ts |-> 4200, st |-> "closed"]>>),
      Series(SensorPower, "empty", RowsAt(600, <<"10", "12", "55", "58">>)),
      Series(<<"sensor", "temp">>, "empty", RowsAt(600, <<"10", "55", "10">>)),
      Series(SensorEnergy, "null", RowsAt(600, <<"10", "12">>)),
      Series(<<"sun", "sun">>, "empty", RowsAt(600, <<"above_horizon">>)) }

HistoryInputs ==
    [hist : UNION {[1..n -> HistSeries] : n \in 0..MaxSeries},
     now : {HistoryNow},
     max_lines : 1..MaxKeep,
     jitter_sec : {JITTER_SEC_DEFAULT}]

InitHistory ==
    /\ InitPipeline
    /\ now_mono = 0
    /\ cfg_mode = "passive"
    /\ PromptIdle
    /\ FetchIdle
    /\ LimiterIdle
    /\ h_pc = "input"
    /\ h_in \in HistoryInputs
    /\ h_out = <<>>

\* one call of compress_history_for_prompt
RankHistory ==
    /\ h_pc = "input"
    /\ h_pc' = "ranked"
    /\ h_out' = compress_history_for_prompt(h_in.hist, h_in.now,
                                            h_in.max_lines, h_in.jitter_sec)
    /\ UNCHANGED <<h_in, evars, pvars, fvars, lvars>>

NextHistory == RankHistory

SpecHistory == InitHistory /\ [][NextHistory]_vars


(* ---------------- history fetch of an analysis run ---------------- *)
\* main.py:1148-1155, 1748-1755: keyword arguments of the first call
FirstRequest ==
    [minimal_response |-> "True", include_start_time_state |-> "True",
     significant_changes_only |-> "None"]

\* main.py:1159-1166, 1759-1766: keyword arguments of the second call
PermissiveRequest ==
    [minimal_response |-> "False", include_start_time_state |-> "True",
     significant_changes_only |-> "False"]

\* ha.py:215-233: what ha.history_period raises (raise_for_status, the
\* connection, the session timeout)
FetchErrors == {"ClientResponseError", "ClientConnectionError", "TimeoutError"}

\* ha.py:199-201, 233-241: what ha.history_period returns, a list of
\* per-entity lists
FetchAnswers ==
    { <<>>,
      <<Series(BinarySensorFront, "empty",
               <<[ts |-> 0, st |-> "closed"], [ts |-> 600, st |-> "open"],
                 [ts |-> 4200, st |-> "closed"]>>)>>,
      <<Series(<<"sensor", "temp">>, "empty", RowsAt(600, <<"10", "55", "10">>)),
        Series(SensorPower, "empty", RowsAt(600, <<"10", "12", "55", "58">>))>>,
      <<Series(SensorEnergy, "null", RowsAt(600, <<"10", "12">>))>> }

\* locals of the run before the fetch
NoFetchResult ==
    [requests |-> <<>>, logged |-> <<>>, hist |-> <<>>,
     history_block |-> [head |-> "", lines |-> <<>>]]

InitFetch ==
    /\ InitPipeline
    /\ now_mono = 0
    /\ cfg_mode = "passive"
    /\ PromptIdle
    /\ HistoryIdle
    /\ LimiterIdle
    /\ f_pc = "input"
    /\ f_in \in [caller : {"_perform_analysis", "run_analysis"},
                 now : {HistoryNow},
                 max_lines : 1..MaxKeep,
                 jitter_sec : {JITTER_SEC_DEFAULT}]
    /\ f_out = NoFetchResult

\* main.py:1147-1155, 1747-1755: the first request is sent, the run suspends
HistoryCall ==
    /\ f_pc = "input"
    /\ f_pc' = "call1"
    /\ f_out' = [f_out EXCEPT !.requests = <<FirstRequest>>]
    /\ UNCHANGED <<f_in, evars, pvars, hvars, lvars>>

\* main.py:1148, 1748: the first call returns its list
FirstReturns ==
    /\ f_pc = "call1"
    /\ f_pc' = "fetched"
    /\ \E data \in FetchAnswers : f_out' = [f_out EXCEPT !.hist = data]
    /\ UNCHANGED <<f_in, evars, pvars, hvars, lvars>>

\* main.py:1156-1166, 1756-1766: the first call raises, the exception is
\* logged and the permissive request is sent
FirstRaises ==
    /\ f_pc = "call1"
    /\ f_pc' = "call2"
    /\ \E e \in FetchErrors :
           f_out' = [f_out EXCEPT !.logged = Append(@, e),
                                  !.requests = Append(@, PermissiveRequest)]
    /\ UNCHANGED <<f_in, evars, pvars, hvars, lvars>>

\* main.py:1159, 1759: the second call returns its list
RetryReturns ==
    /\ f_pc = "call2"
    /\ f_pc' = "fetched"
    /\ \E data \in FetchAnswers : f_out' = [f_out EXCEPT !.hist = data]
    /\ UNCHANGED <<f_in, evars, pvars, hvars, lvars>>

\* variant: the second call has no except of its own
RetryRaises_Propagates ==
    /\ f_pc = "call2"
    /\ f_pc' = "raised"
    /\ \E e \in FetchErrors : f_out' = [f_out EXCEPT !.logged = Append(@, e)]
    /\ UNCHANGED <<f_in, evars, pvars, hvars, lvars>>

\* main.py:1167-1169, 1767-1769: the second call raises too
RetryRaises ==
    /\ f_pc = "call2"
    /\ f_pc' = "fetched"
    /\ \E e \in FetchErrors :
           f_out' = [f_out EXCEPT !.logged = Append(@, e), !.hist = <<>>]
    /\ UNCHANGED <<f_in, evars, pvars, hvars, lvars>>

\* main.py:1180-1189, 1780-1789: the run goes on to compress what it has
PackHistory ==
    /\ f_pc = "fetched"
    /\ f_pc' = "packed"
    /\ f_out' = [f_out EXCEPT !.history_block =
                     compress_history_for_prompt(f_out.hist, f_in.now,
                                                 f_in.max_lines, f_in.jitter_sec)]
    /\ UNCHANGED <<f_in, evars, pvars, hvars, lvars>>

NextFetch ==
    \/ HistoryCall
    \/ FirstReturns
    \/ FirstRaises
    \/ RetryReturns
    \/ RetryRaises
    \/ PackHistory

SpecFetch == InitFetch /\ [][NextFetch]_vars


(* ---------------- RateLimiter ---------------- *)
MaxPerHour == 2     \* largest max_per_hour tried
MaxCalls == 4       \* allow() calls

\* steps of datetime.utcnow() between two calls, in seconds: two half hours
\* make the hour exactly, one more second passes it
ClockSteps == {1, HourSec \div 2}
MaxLimiterNow == 2 * HourSec + 2

\* variant: an entry exactly one hour old is dropped as well
RECURSIVE Purge_AtHour(_, _)
Purge_AtHour(events, now) ==
    IF events # <<>> /\ (now - events[1]) >= HourSec
    THEN Purge_AtHour(Tail(events), now)
    ELSE events

\* util.py:13-14: the while loop of allow()
RECURSIVE Purge(_, _)
Purge(events, now) ==
    IF events # <<>> /\ (now - events[1]) > HourSec
    THEN Purge(Tail(events), now)
    ELSE events

InitLimiter ==
    /\ InitPipeline
    /\ now_mono = 0
    /\ cfg_mode = "passive"
    /\ PromptIdle
    /\ HistoryIdle
    /\ FetchIdle
    /\ l_max \in 0..MaxPerHour
    /\ l_now = 0
    /\ l_events = <<>>
    /\ l_admitted = <<>>
    /\ l_calls = 0
    /\ l_ret = FALSE

\* util.py:11-18
allow ==
    LET events == Purge(l_events, l_now)
    IN  /\ l_calls < MaxCalls
        /\ l_calls' = l_calls + 1
        /\ IF Len(events) < l_max
           THEN /\ l_events' = Append(events, l_now)
                /\ l_admitted' = Append(l_admitted, l_now)
                /\ l_ret' = TRUE
           ELSE /\ l_events' = events
                /\ l_admitted' = l_admitted
                /\ l_ret' = FALSE
        /\ UNCHANGED <<l_max, l_now, evars, pvars, hvars, fvars>>

\* time passes between two calls; the clock does not go back.  It is
\* sampled on the half hours and one second after them
ClockAdvance ==
    /\ \E d \in ClockSteps :
           /\ l_now + d <= MaxLimiterNow
           /\ d = 1 => l_now % (HourSec \div 2) = 0
           /\ l_now' = l_now + d
    /\ UNCHANGED <<l_max, l_events, l_admitted, l_calls, l_ret,
                   evars, pvars, hvars, fvars>>

NextLimiter == allow \/ ClockAdvance

SpecLimiter == InitLimiter /\ [][NextLimiter]_vars


(* ======================= claims ======================= *)
TaskIds == 1..MaxTasks

\* a step in which ha_event_listener appended a well-formed event
EventAppended ==
    /\ stream_pos' = stream_pos + 1
    /\ Len(since_clear') = Len(since_clear) + 1
    /\ SubSeq(since_clear', 1, Len(since_clear)) = since_clear

\* a step in which asyncio.create_task(_auto_trigger(...)) was called
TaskCreated == \E t \in TaskIds : tasks[t].pc = "none" /\ tasks'[t].pc = "created"

\* a step in which an auto run or /api/run snapshots and clears the buffer
AutoSnapshotStep ==
    \E t \in TaskIds : /\ tasks[t].pc = "created"
                       /\ tasks'[t].pc \in {"fetch", "close_empty"}
                       /\ tasks'[t].mode = "passive"
ManualSnapshotStep == manual_runs' = manual_runs + 1 /\ manual_mode' = "passive"
SnapshotStep == AutoSnapshotStep \/ ManualSnapshotStep

\* C1: at most one auto-analysis run is scheduled-or-running at any time.
C1_AtMostOneRun == Cardinality({t \in TaskIds : Active(t)}) <= 1

\* C2: with no intervening snapshot-and-clear, EVENT_BUFFER holds exactly the
\* last min(n, EVENT_BUFFER_MAX) of the n appended events, in arrival order.
C2_BufferIsLastC ==
    LET n == Len(since_clear)
        k == IF n < EVENT_BUFFER_MAX THEN n ELSE EVENT_BUFFER_MAX
    IN  /\ Len(EVENT_BUFFER) = k
        /\ Len(EVENT_BUFFER) <= EVENT_BUFFER_MAX
        /\ \A i \in 1..k : EVENT_BUFFER[i] = since_clear[n - k + i]
C2_Witness ==
    /\ Len(since_clear) > EVENT_BUFFER_MAX
    /\ Len(EVENT_BUFFER) = EVENT_BUFFER_MAX
    /\ EVENT_BUFFER[1].ts = since_clear[1].ts + (Len(since_clear) - EVENT_BUFFER_MAX)

\* C3: compose_user_prompt returns at most TOTAL_MAX_CHARS characters and
\* clamp_chars(text, m) returns at most m characters.
C3_WithinCeiling ==
    /\ p_pc = "composed" => TextLen(p_out) <= TOTAL_MAX_CHARS
    /\ p_pc = "clamped" => TextLen(p_out) <= p_max

\* C4: whenever an auto run has been scheduled and has not finished,
\* in_progress is set.
C4_InProgressWhileScheduled == \A t \in TaskIds : Active(t) => in_progress

\* C5: once an auto run has finished, none of the events that caused its
\* trigger remain in the buffer, whatever the configured mode.
C5_TriggerEventsConsumed ==
    \A t \in TaskIds :
        Terminated(t) =>
            \A i \in 1..Len(tasks[t].trig) :
                tasks[t].trig[i] \notin SeqToSet(EVENT_BUFFER)

\* C6: _last_auto_run_ts changes only in a step in which an auto run's
\* _perform_analysis returns without raising; a step in which a run ends by
\* an exception leaves it unchanged.
C6_TsOnlyOnSuccess ==
    [][ /\ (_last_auto_run_ts' # _last_auto_run_ts =>
              \E t \in TaskIds : tasks[t].pc # "done" /\ tasks'[t].pc = "done")
        /\ (\A t \in TaskIds :
              (tasks[t].pc # "failed" /\ tasks'[t].pc = "failed") =>
                  _last_auto_run_ts' = _last_auto_run_ts) ]_vars
C6_Witness ==
    \E t, u \in TaskIds :
        /\ tasks[t].pc = "done" /\ tasks[u].pc = "failed"
        /\ _last_auto_run_ts # NoTs /\ _last_auto_run_ts < now_mono

\* C7: whenever an _auto_trigger run terminates, by return or by exception,
\* in_progress is clear afterwards.
C7_ClearedOnTermination ==
    [][ \A t \in TaskIds :
          (Active(t) /\ tasks'[t].pc \in {"done", "failed"}) => ~in_progress' ]_vars
C7_Witness ==
    \E t, u \in TaskIds :
        /\ tasks[t].pc = "failed" /\ tasks[u].pc = "created"
        /\ ~in_progress

\* C8: an ingested event schedules an auto run exactly when in_progress is
\* not set and (size pressure and its cooldown elapsed, or count pressure and
\* its cooldown elapsed); no other step schedules a run.
C8_FireExactlyWhen ==
    [][ LET last  == IF _last_auto_run_ts = NoTs THEN 0 ELSE _last_auto_run_ts
            countp == Len(EVENT_BUFFER') >= AUTO_ANALYSIS_EVENT_THRESHOLD
            sizep  == \/ EVENT_BYTES' >= EVENTS_TRIGGER_CHARS
                      \/ Cardinality(EVENT_UNIQUE_IDS') >= EVENTS_TRIGGER_UNIQUE
            cond   == /\ ~in_progress
                      /\ \/ sizep /\ now_mono - last >= AUTO_SIZE_MIN_INTERVAL_SEC
                         \/ countp /\ now_mono - last >= AUTO_ANALYSIS_MIN_INTERVAL_SEC
        IN  /\ EventAppended => (TaskCreated <=> cond)
            /\ TaskCreated => EventAppended ]_vars
C8_Witness ==
    \E t \in TaskIds : tasks[t].pc = "created" /\ ~in_progress

\* C9: if no auto run has ever succeeded, an event that finds pressure and
\* in_progress clear schedules a run, for every value of the monotonic clock.
C9_ImmediateWhenNeverSucceeded ==
    [][ ( /\ EventAppended
          /\ _last_auto_run_ts = NoTs
          /\ ~in_progress
          /\ \/ Len(EVENT_BUFFER') >= AUTO_ANALYSIS_EVENT_THRESHOLD
             \/ EVENT_BYTES' >= EVENTS_TRIGGER_CHARS
             \/ Cardinality(EVENT_UNIQUE_IDS') >= EVENTS_TRIGGER_UNIQUE )
        => TaskCreated ]_vars

\* C10: EVENT_BYTES and EVENT_UNIQUE_IDS are reset exactly in the steps that
\* snapshot-and-clear EVENT_BUFFER, and every step that clears the buffer
\* resets both.
C10_ResetExactlyOnSnapshot ==
    [][ /\ (EVENT_BYTES' < EVENT_BYTES \/ ~(EVENT_UNIQUE_IDS \subseteq EVENT_UNIQUE_IDS'))
              => SnapshotStep
        /\ SnapshotStep =>
              (EVENT_BUFFER' = <<>> /\ EVENT_BYTES' = 0 /\ EVENT_UNIQUE_IDS' = {})
        /\ (EVENT_BUFFER # <<>> /\ EVENT_BUFFER' = <<>>) =>
              (SnapshotStep /\ EVENT_BYTES' = 0 /\ EVENT_UNIQUE_IDS' = {}) ]_vars
C10_Witness ==
    /\ EVENT_BYTES = 0 /\ EVENT_UNIQUE_IDS = {} /\ EVENT_BUFFER = <<>>
    /\ \E t \in TaskIds : Len(tasks[t].events) >= 2
    /\ manual_mode = "passive" /\ manual_events # <<>>
\* C11: in every reachable state where an analysis run is awaiting the
\* topology/state/history fetch, compressing history or calling the model
\* (a task between its snapshot and its return, or the manual request after
\* its snapshot), EVENT_LOCK is free
AtSlowStep(t) == tasks[t].pc \in {"fetch", "close_ok", "close_err", "notify"}
C11_LockFreeDuringSlowSteps ==
    ((\E t \in TaskIds : AtSlowStep(t)) \/ manual_mode # None)
        => EVENT_LOCK = "free"
C11_Witness ==
    \E t \in TaskIds :
        /\ tasks[t].pc = "fetch"
        /\ tasks[t].mode = "passive"
        /\ tasks[t].events # <<>>
        /\ EVENT_LOCK = "free"
        /\ EVENT_BUFFER # <<>>

\* C12: every snapshot taken by an analysis run is the contiguous suffix, in
\* arrival order, of the events appended since the previous clear, capped at
\* EVENT_BUFFER_MAX for auto runs and at the /api/run cap for manual runs;
\* nothing is reordered and nothing in the middle is skipped.
IsCappedSuffix(snap, arrived, cap) ==
    /\ Len(snap) = (IF Len(arrived) <= cap THEN Len(arrived) ELSE cap)
    /\ \A i \in 1..Len(snap) : snap[i] = arrived[Len(arrived) - Len(snap) + i]
C12_SnapshotIsSuffix ==
    [][ /\ \A t \in TaskIds :
              (/\ tasks[t].pc = "created"
               /\ tasks'[t].pc \in {"fetch", "close_empty"}
               /\ tasks'[t].mode = "passive")
              => IsCappedSuffix(tasks'[t].events, since_clear, EVENT_BUFFER_MAX)
        /\ ManualSnapshotStep
              => IsCappedSuffix(manual_events', since_clear, MANUAL_RUN_MAX) ]_vars
C12_Witness ==
    /\ manual_mode = "passive"
    /\ Len(manual_events) = MANUAL_RUN_MAX
    /\ manual_events[1].ts > 1
    /\ \E t \in TaskIds : tasks[t].mode = "passive" /\ tasks[t].events # <<>>

\* C13: a completed pass of _perform_analysis has row = null exactly when
\* its snapshot found the event buffer empty; such a pass did not call the
\* language model and persisted nothing (every persisted row belongs to a
\* pass that returned it), and every other completed pass returns the row
\* it persisted.
EmptyAtSnapshot(t) == tasks[t].mode = "passive" /\ tasks[t].events = <<>>
C13_NullRowIffEmptySnapshot ==
    /\ \A t \in TaskIds :
          tasks[t].pc = "done" =>
              /\ (tasks[t].row = NoRow) <=> EmptyAtSnapshot(t)
              /\ tasks[t].row = NoRow => ~tasks[t].llm
              /\ tasks[t].row # NoRow => (tasks[t].row \in 1..db_rows /\ tasks[t].llm)
    /\ db_rows = Cardinality({t \in TaskIds : tasks[t].row # NoRow})
C13_Witness ==
    \E t, u \in TaskIds :
        /\ tasks[t].pc = "done" /\ EmptyAtSnapshot(t) /\ tasks[t].row = NoRow
        /\ tasks[u].pc = "done" /\ tasks[u].mode = "passive"
        /\ tasks[u].events # <<>> /\ tasks[u].row # NoRow

\* C14: the size-pressure cooldown is strictly shorter than the
\* count-pressure cooldown: at some elapsed time since the last run
\* (_last_auto_run_ts, or loop time 0 when no run has succeeded) the size
\* cooldown has passed while the count cooldown has not.
C14_SizeCooldownShorter ==
    /\ AUTO_SIZE_MIN_INTERVAL_SEC < AUTO_ANALYSIS_MIN_INTERVAL_SEC
    /\ \E elapsed \in 0..AUTO_ANALYSIS_MIN_INTERVAL_SEC :
           /\ recent_enough_size(last_ts(_last_auto_run_ts) + elapsed,
                                 _last_auto_run_ts)
           /\ ~recent_enough_count(last_ts(_last_auto_run_ts) + elapsed,
                                   _last_auto_run_ts)

\* C15: clamp_chars, and the final clamp of compose_user_prompt, truncate
\* only at line boundaries: the output is the input itself, or a prefix of
\* the input's lines, each complete and unmodified, followed by the
\* truncation marker.
IsLinePrefixWithMarker(out, text) ==
    \E k \in 0..Len(splitlines(text)) :
        out = JoinLines(SubSeq(splitlines(text), 1, k) \o <<TruncMarker>>)
Unclamped(in) == Concat(Header(in.lang_len), ComposeBody(in))
C15_WholeLinesOnly ==
    /\ p_pc = "clamped" =>
          (p_out = p_arg \/ IsLinePrefixWithMarker(p_out, p_arg))
    /\ p_pc = "composed" =>
          (p_out = Unclamped(p_in) \/ IsLinePrefixWithMarker(p_out, Unclamped(p_in)))
C15_Witness ==
    /\ p_pc = "clamped"
    /\ p_out # p_arg
    /\ Len(p_out) >= 2
    /\ Len(p_out) - 1 < Len(splitlines(p_arg))
    /\ p_out[1] = p_arg[1]

\* the rows of the compressed series after sorting and coalescing
CoalescedRows == Coalesce(SortByTs(h_in.series.rows), h_in.jitter_sec)

\* C16: jitter coalescing is idempotent: coalescing the coalesced rows again
\* with the same jitter window returns them unchanged, and compressing the
\* already-coalesced series returns the identical line and score.
C16_CoalesceIdempotent ==
    h_pc = "compressed" =>
        /\ Coalesce(SortByTs(CoalescedRows), h_in.jitter_sec) = CoalescedRows
        /\ _compress_entity_series([h_in.series EXCEPT !.rows = CoalescedRows],
                                   h_in.now, h_in.jitter_sec) = h_out
C16_Witness ==
    /\ h_pc = "compressed"
    /\ h_in.jitter_sec = JITTER_SEC_DEFAULT
    /\ Len(h_in.series.rows) = 3
    /\ h_in.series.rows[1].ts = 0
    /\ h_in.series.rows[2].ts = 80
    /\ h_in.series.rows[3].ts = 160
    /\ Len(CoalescedRows) = 1
    /\ h_out.line.path = "binary"

\* C17: on the binary path, for every value of now, the accumulated true
\* duration never exceeds the observation window now - first sample time.
C17_TrueDurWithinWindow ==
    (h_pc = "compressed" /\ h_out.line.path = "binary") =>
        TrueDurFrom(CoalescedRows, 1, h_in.now)
            <= h_in.now - CoalescedRows[1].ts

\* C18: door.front with closed at t0, open at t0 + 10 min, closed at
\* t0 + 70 min, jitter 90 s and now = t0 + 70 min takes the binary path and
\* reports a true duration of 60 of 70 minutes, 86%.
DoorScenario ==
    [series |-> Series(DoorFront, "empty",
                       <<[ts |-> 0, st |-> "closed"],
                         [ts |-> 10 * 60, st |-> "open"],
                         [ts |-> 70 * 60, st |-> "closed"]>>),
     now |-> 70 * 60,
     jitter_sec |-> JITTER_SEC_DEFAULT]
C18_DoorFrontBinary ==
    (h_pc = "compressed" /\ h_in = DoorScenario) =>
        /\ h_out.line.path = "binary"
        /\ TrueDurFrom(CoalescedRows, 1, h_in.now) = 60 * 60
        /\ TotalSec(CoalescedRows, h_in.now) = 70 * 60
        /\ h_out.line.pct = [neg |-> FALSE, digits |-> 86]

ResultAt(i) ==
    _compress_entity_series(h_in.hist[i], h_in.now, h_in.jitter_sec)
EverySampleUnknown(series) ==
    \A k \in 1..Len(series.rows) :
        series.rows[k].st \in {"unknown", "unavailable"}
UsableEntities ==
    {i \in 1..Len(h_in.hist) : /\ h_in.hist[i].rows # <<>>
                               /\ ~EverySampleUnknown(h_in.hist[i])
                               /\ ~ResultAt(i).raised}
ScoreAtLeast(a, b) == a.num * b.den >= b.num * a.den
C20_TopLinesDescending ==
    h_pc = "ranked" =>
        LET k == Len(h_out.lines)
            n == Cardinality(UsableEntities)
        IN  /\ k <= h_in.max_lines
            /\ k = (IF n <= h_in.max_lines THEN n ELSE h_in.max_lines)
            /\ \E f \in [1..k -> UsableEntities] :
                   /\ \A a, b \in 1..k : f[a] = f[b] => a = b
                   /\ \A j \in 1..k : h_out.lines[j] = ResultAt(f[j]).line
                   /\ \A j \in 1..(k - 1) :
                          ScoreAtLeast(ResultAt(f[j]).score,
                                       ResultAt(f[j + 1]).score)
                   /\ \A i \in UsableEntities \ {f[j] : j \in 1..k} :
                          \A j \in 1..k :
                              ScoreAtLeast(ResultAt(f[j]).score,
                                           ResultAt(i).score)
            /\ \A j \in 1..k : \A i \in 1..Len(h_in.hist) :
                   EverySampleUnknown(h_in.hist[i])
                       => h_out.lines[j].eid # h_in.hist[i].eid
C20_Witness ==
    /\ h_pc = "ranked"
    /\ h_in.max_lines = MaxKeep
    /\ Len(h_in.hist) = MaxSeries
    /\ Cardinality(UsableEntities) = MaxKeep + 1
    /\ \E i \in 1..Len(h_in.hist) :
           h_in.hist[i].rows # <<>> /\ EverySampleUnknown(h_in.hist[i])
    /\ Len(h_out.lines) = MaxKeep
    /\ h_in.hist[Len(h_in.hist)].eid = h_out.lines[1].eid
    /\ \A i \in UsableEntities \ {Len(h_in.hist)} :
           ~ScoreAtLeast(ResultAt(i).score, ResultAt(Len(h_in.hist)).score)

\* C21: a failure while compressing one entity's series never aborts the
\* batch: the call returns, the failing entity has no line, and the entity
\* lines are exactly those of the same call without the failing entities
\* in the input.
CompressionFails(series) ==
    /\ series.rows # <<>>
    /\ ~EverySampleUnknown(series)
    /\ _compress_entity_series(series, h_in.now, h_in.jitter_sec).raised
WithoutFailing(hist) == SelectSeq(hist, LAMBDA x : ~CompressionFails(x))
C21_FailureOmitsOnlyThatEntity ==
    h_pc = "ranked" =>
        /\ h_out.lines =
              compress_history_for_prompt(WithoutFailing(h_in.hist), h_in.now,
                                          h_in.max_lines, h_in.jitter_sec).lines
        /\ \A j \in 1..Len(h_out.lines) : \A i \in 1..Len(h_in.hist) :
               CompressionFails(h_in.hist[i])
                   => h_out.lines[j].eid # h_in.hist[i].eid
        /\ (\E i \in 1..Len(h_in.hist) :
                /\ h_in.hist[i].rows # <<>>
                /\ ~EverySampleUnknown(h_in.hist[i])
                /\ ~CompressionFails(h_in.hist[i]))
               => h_out.head = "HISTORY (compressed):"
C21_Witness ==
    /\ h_pc = "ranked"
    /\ Len(h_in.hist) >= 3
    /\ ~CompressionFails(h_in.hist[1]) /\ 1 \in UsableEntities
    /\ CompressionFails(h_in.hist[2])
    /\ ~CompressionFails(h_in.hist[3]) /\ 3 \in UsableEntities
    /\ h_in.max_lines = 2
    /\ Len(h_out.lines) = 2
    /\ h_out.lines[1].eid # h_out.lines[2].eid

\* C22: when the language-model call of an auto run fails, the failure stays
\* inside _auto_trigger: the step in which the exception reaches it persists
\* no row (the run has none, the table does not grow), clears in_progress,
\* leaves _last_auto_run_ts, the buffer and the ingestion loop's position
\* alone, and afterwards ha_event_listener can still take and append the
\* next well-formed event.
LlmCallFailed(t) == tasks[t].pc = "close_err" /\ tasks[t].llm
FailedAtModelCall(t) ==
    tasks[t].pc = "failed" /\ tasks[t].llm /\ tasks[t].row = NoRow
C22_ModelFailureContained ==
    /\ [][ \A t \in TaskIds :
             (LlmCallFailed(t) /\ tasks'[t].pc # "close_err") =>
                 /\ tasks'[t].pc = "failed"
                 /\ tasks'[t].row = NoRow
                 /\ db_rows' = db_rows
                 /\ ~in_progress'
                 /\ _last_auto_run_ts' = _last_auto_run_ts
                 /\ stream_pos' = stream_pos
                 /\ EVENT_BUFFER' = EVENT_BUFFER
                 /\ EVENT_LOCK' = EVENT_LOCK ]_vars
    /\ []( ((\E t \in TaskIds : FailedAtModelCall(t)) /\ stream_pos < MaxEvents)
             => \A evt \in StreamEvents :
                    \/ ENABLED HandleEvent(evt)
                    \/ FreeSlots = {} )
C22_Witness ==
    \E t \in TaskIds :
        /\ FailedAtModelCall(t)
        /\ tasks[t].events # <<>>
        /\ ~in_progress
        /\ db_rows = 0
        /\ EVENT_BUFFER # <<>>
        /\ EVENT_BUFFER[Len(EVENT_BUFFER)].ts = MaxEvents

\* C23: the history fetch never fails the run.  A first call that raises is
\* followed by exactly one more call, with minimal_response = false and
\* significant_changes_only = false; when that one raises as well the run
\* has hist = [] and goes on; every way out of either call leads to the
\* compression step, none to an exception leaving the run.
C23_HistoryFetchNeverFails ==
    /\ [](f_pc # "raised")
    /\ [][ /\ (f_pc = "call1" /\ f_pc' # "call1") =>
                \/ /\ f_pc' = "fetched"
                   /\ f_out'.logged = <<>>
                   /\ f_out'.requests = <<FirstRequest>>
                \/ /\ f_pc' = "call2"
                   /\ Len(f_out'.logged) = 1
                   /\ Len(f_out'.requests) = 2
                   /\ f_out'.requests[2].minimal_response = "False"
                   /\ f_out'.requests[2].significant_changes_only = "False"
           /\ (f_pc = "call2" /\ f_pc' # "call2") =>
                /\ f_pc' = "fetched"
                /\ Len(f_out'.requests) = 2
                /\ Len(f_out'.logged) = 2 => f_out'.hist = <<>>
           /\ f_pc = "fetched" => f_pc' = "packed" ]_vars
C23_Witness ==
    /\ f_pc = "packed"
    /\ Len(f_out.logged) = 2
    /\ Len(f_out.requests) = 2
    /\ f_out.hist = <<>>
    /\ f_out.history_block.head = "(no history available)"

\* C24: truncation respects the order of the blocks (context memos, topology,
\* state, history, live events): whenever a line of a later block is in the
\* prompt that compose_user_prompt returns, every line of every earlier
\* block, as clamped on its own, is in it too.
BodyBlocks(in) ==
    LET context == IF in.context_block # <<>>
                   THEN clamp_chars(in.context_block, CONTEXT_MAX_CHARS)
                   ELSE <<>>
        events  == IF in.events_block # <<>>
                   THEN clamp_chars(in.events_block, EVENTS_MAX_CHARS)
                   ELSE <<>>
    IN  (IF context # <<>> THEN <<Concat(ContextLabel, context)>> ELSE <<>>)
        \o <<clamp_chars(strip_noise(in.topo), TOPO_MAX_CHARS),
             clamp_chars(strip_noise(in.state_block), STATE_MAX_CHARS),
             clamp_chars(in.history_block, HISTORY_MAX_CHARS)>>
        \o (IF events # <<>> THEN <<Concat(EventsLabel, events)>> ELSE <<>>)
\* the lines of the unclamped prompt that hold block i: the header takes
\* four lines and one blank line separates two blocks
RECURSIVE LinesBefore(_, _)
LinesBefore(parts, i) ==
    IF i = 1 THEN 4
    ELSE LinesBefore(parts, i - 1) + Len(AsLines(parts[i - 1])) + 1
LinesOfBlock(parts, i) ==
    (LinesBefore(parts, i) + 1)..(LinesBefore(parts, i) + Len(AsLines(parts[i])))
\* the lines of `full`, from line k on, that are found again in `out`,
\* reading both front to back
RECURSIVE MatchedLines(_, _, _)
MatchedLines(out, full, k) ==
    IF out = <<>> \/ k > Len(full) THEN {}
    ELSE IF full[k] = out[1]
         THEN {k} \cup MatchedLines(Tail(out), full, k + 1)
         ELSE MatchedLines(out, full, k + 1)
\* the returned prompt without the marker the final clamp appended
KeptLines ==
    IF p_out = Unclamped(p_in) THEN p_out
    ELSE SubSeq(p_out, 1, Len(p_out) - 1)
\* line k of the unclamped prompt is in the returned prompt
Survives(k) == k \in MatchedLines(KeptLines, Unclamped(p_in), 1)
C24_EarlierBlocksSurviveFirst ==
    p_pc = "composed" =>
        LET parts == BodyBlocks(p_in)
        IN  /\ JoinBlank(parts) = ComposeBody(p_in)
            /\ \A i \in 1..Len(parts) : \A r \in 1..Len(AsLines(parts[i])) :
                   Unclamped(p_in)[LinesBefore(parts, i) + r] = AsLines(parts[i])[r]
            /\ \A j \in 1..Len(parts) : \A i \in 1..(j - 1) :
                   (\E k \in LinesOfBlock(parts, j) : Survives(k))
                       => \A k \in LinesOfBlock(parts, i) : Survives(k)
C24_Witness ==
    /\ p_pc = "composed"
    /\ p_out # Unclamped(p_in)
    /\ p_in.context_block # <<>>
    /\ LET parts == BodyBlocks(p_in)
       IN  \E j \in 2..Len(parts) :
               /\ \E k \in LinesOfBlock(parts, j) : Survives(k)
               /\ \E k \in LinesOfBlock(parts, j) : ~Survives(k)
               /\ \A i \in 1..(j - 1) : \A k \in LinesOfBlock(parts, i) : Survives(k)

\* C25: for a series that takes the numeric path, the returned activity
\* score equals the count of meaningful transitions the line reports, also
\* when that count is zero.
C25_NumericActivityIsJumpCount ==
    (h_pc = "compressed" /\ ~h_out.raised /\ h_out.line.path = "numeric") =>
        h_out.score.num = h_out.line.changes * h_out.score.den

\* C26: no event is delivered to two analysis runs.  Under every interleaving
\* of the listener, the auto runs and /api/run, the snapshots are pairwise
\* disjoint and disjoint from what the buffer holds now; a snapshot takes its
\* events from the buffer and leaves it empty; and outside a snapshot step an
\* event leaves the buffer only as the oldest entry of a full buffer when a
\* new event is appended, so an event appended after a clear waits there for
\* a later snapshot.
Delivered(t) == SeqToSet(tasks[t].events)
C26_NoEventInTwoSnapshots ==
    /\ [] /\ \A t, u \in TaskIds : t # u => Delivered(t) \cap Delivered(u) = {}
          /\ \A t \in TaskIds :
                /\ Delivered(t) \cap SeqToSet(manual_events) = {}
                /\ Delivered(t) \cap SeqToSet(EVENT_BUFFER) = {}
          /\ SeqToSet(manual_events) \cap SeqToSet(EVENT_BUFFER) = {}
    /\ [][ /\ SnapshotStep =>
                /\ EVENT_BUFFER' = <<>>
                /\ \A t \in TaskIds :
                       tasks'[t].events # tasks[t].events =>
                           SeqToSet(tasks'[t].events) \subseteq SeqToSet(EVENT_BUFFER)
                /\ ManualSnapshotStep =>
                       SeqToSet(manual_events') \subseteq SeqToSet(EVENT_BUFFER)
           /\ ~SnapshotStep =>
                /\ \A t \in TaskIds : tasks'[t].events = tasks[t].events
                /\ manual_events' = manual_events
                /\ \A i \in 1..Len(EVENT_BUFFER) :
                       \/ EVENT_BUFFER[i] \in SeqToSet(EVENT_BUFFER')
                       \/ /\ EventAppended
                          /\ Len(EVENT_BUFFER) = EVENT_BUFFER_MAX
                          /\ i = 1
           /\ EventAppended =>
                EVENT_BUFFER'[Len(EVENT_BUFFER')].ts = stream_pos' ]_vars
C26_Witness ==
    \E t \in TaskIds :
        /\ tasks[t].events # <<>>
        /\ manual_mode = "passive"
        /\ manual_events # <<>>
        /\ EVENT_BUFFER # <<>>
        /\ \A i \in 1..Len(tasks[t].events) :
               tasks[t].events[i].ts < EVENT_BUFFER[1].ts
        /\ \A i \in 1..Len(manual_events) :
               manual_events[i].ts < EVENT_BUFFER[1].ts

\* C27: in every reachable state EVENT_BYTES >= 32 * len(EVENT_BUFFER); with
\* the shipped thresholds (8000 events, int(3000 * 1.5) characters), and with
\* the thresholds of the model, count pressure therefore implies size
\* pressure, and no auto run is scheduled with count pressure true and size
\* pressure false.
SHIPPED_EVENT_THRESHOLD == 8000
SHIPPED_TRIGGER_CHARS == (EVENTS_MAX_CHARS * 150) \div 100
C27_CountPressureImpliesSizePressure ==
    /\ [] /\ EVENT_BYTES >= APPROX_OVERHEAD * Len(EVENT_BUFFER)
          /\ APPROX_OVERHEAD * SHIPPED_EVENT_THRESHOLD >= SHIPPED_TRIGGER_CHARS
          /\ APPROX_OVERHEAD * AUTO_ANALYSIS_EVENT_THRESHOLD >= EVENTS_TRIGGER_CHARS
          /\ count_pressure(EVENT_BUFFER)
                => size_pressure(EVENT_BYTES, EVENT_UNIQUE_IDS)
          /\ \A t \in TaskIds : tasks[t].reason # "Auto (event threshold)"
    /\ [][ TaskCreated =>
               ~(/\ count_pressure(EVENT_BUFFER')
                 /\ ~size_pressure(EVENT_BYTES', EVENT_UNIQUE_IDS')) ]_vars
C27_Witness ==
    \E t \in TaskIds :
        /\ tasks[t].pc = "created"
        /\ tasks[t].trig = EVENT_BUFFER
        /\ count_pressure(EVENT_BUFFER)
        /\ Len(EVENT_BUFFER) = EVENT_BUFFER_MAX
        /\ Len(since_clear) > EVENT_BUFFER_MAX
        /\ EVENT_BYTES > APPROX_OVERHEAD * Len(since_clear)

\* C28: every auto run whose _perform_analysis returns without raising sets
\* _last_auto_run_ts to the loop time of its return, never to an earlier
\* value than it had; this includes the run whose snapshot was empty and
\* which persisted nothing.  From then on no run is scheduled before a
\* cooldown has elapsed.
C28_TsAdvancedByEveryReturn ==
    /\ [][ \A t \in TaskIds :
             (Active(t) /\ tasks'[t].pc = "done") =>
                 /\ _last_auto_run_ts' = now_mono
                 /\ _last_auto_run_ts' >= _last_auto_run_ts
                 /\ EmptyAtSnapshot(t) =>
                        (tasks'[t].row = NoRow /\ db_rows' = db_rows) ]_vars
    /\ [][ TaskCreated =>
               \/ now_mono - last_ts(_last_auto_run_ts) >= AUTO_SIZE_MIN_INTERVAL_SEC
               \/ now_mono - last_ts(_last_auto_run_ts) >= AUTO_ANALYSIS_MIN_INTERVAL_SEC ]_vars
C28_Witness ==
    \E t \in TaskIds :
        /\ tasks[t].pc = "done"
        /\ tasks[t].trig # <<>>
        /\ EmptyAtSnapshot(t)
        /\ tasks[t].row = NoRow
        /\ SeqToSet(tasks[t].trig) \subseteq SeqToSet(manual_events)
        /\ _last_auto_run_ts = now_mono
        /\ now_mono > 0
        /\ ~in_progress
        /\ \A u \in TaskIds : ~Active(u)
        /\ count_pressure(EVENT_BUFFER)
        /\ size_pressure(EVENT_BYTES, EVENT_UNIQUE_IDS)

\* C29: a stream event without data.entity_id or time_fired leaves
\* EVENT_BUFFER, EVENT_BYTES, EVENT_UNIQUE_IDS, in_progress and
\* _last_auto_run_ts unchanged, takes no lock and schedules no run, and the
\* listener takes the next well-formed event as it would have otherwise.
MalformedStep == stream_pos' = stream_pos + 1 /\ ~EventAppended
C29_MalformedEventIgnored ==
    /\ [][ MalformedStep =>
               /\ UNCHANGED <<EVENT_BUFFER, EVENT_BYTES, EVENT_UNIQUE_IDS,
                              in_progress, _last_auto_run_ts, EVENT_LOCK>>
               /\ tasks' = tasks
               /\ ~TaskCreated ]_vars
    /\ [][ \A evt \in StreamEvents :
               (MalformedStep /\ stream_pos' < MaxEvents /\ ENABLED HandleEvent(evt))
                   => (ENABLED HandleEvent(evt))' ]_vars
C29_Witness ==
    /\ stream_pos = 3
    /\ Len(since_clear) = 2
    /\ since_clear[1].ts = 1
    /\ since_clear[2].ts = 3
    /\ EVENT_BUFFER = since_clear
    /\ EVENT_BYTES = approx_len(since_clear[1]) + approx_len(since_clear[2])

\* C30: under a non-decreasing clock allow() returns True at most
\* max_per_hour times within any window of one hour; a call is admitted
\* exactly when fewer than max_per_hour admitted calls are at most one hour
\* old; a refused call is not recorded and does not count against later
\* calls.
AdmittedWithin(from, to) ==
    Cardinality({j \in 1..Len(l_admitted) :
                    from <= l_admitted[j] /\ l_admitted[j] <= to})
AllowStep == l_calls' = l_calls + 1
C30_AtMostMaxPerHour ==
    /\ [](\A i \in 1..Len(l_admitted) :
             AdmittedWithin(l_admitted[i], l_admitted[i] + HourSec) <= l_max)
    /\ [][ AllowStep =>
             /\ l_ret' <=> (AdmittedWithin(l_now - HourSec, l_now) < l_max)
             /\ l_ret' => /\ l_admitted' = Append(l_admitted, l_now)
                          /\ l_events'[Len(l_events')] = l_now
             /\ ~l_ret' => /\ l_admitted' = l_admitted
                           /\ \E k \in 0..Len(l_events) :
                                  l_events' = SubSeq(l_events, k + 1, Len(l_events))
             /\ Len(l_events') = AdmittedWithin(l_now - HourSec, l_now)
                                    + (IF l_ret' THEN 1 ELSE 0) ]_vars
C30_Witness ==
    /\ l_max = 2
    /\ l_calls = MaxCalls
    /\ Len(l_admitted) = 3
    /\ l_admitted[2] = l_admitted[1] + 1
    /\ l_admitted[3] = l_admitted[1] + HourSec + 1
    /\ l_ret
    /\ l_events = <<l_admitted[2], l_admitted[3]>>

====
